---------------------------- MODULE Spec2Model ----------------------------
(***************************************************************************)
(* Thermotron 3800 oven driver                                             *)
(* (src/pymeasure/instruments/thermotron/thermotron3800.py).               *)
(*                                                                         *)
(* Two specifications share the variables below.                           *)
(*   Spec        the driver as its caller sees it: one action per driver   *)
(*               call (run, stop, initalize_oven, setpoint, mode, the      *)
(*               plain measurements) plus the oven changing its status.    *)
(*   DecodeSpec  one decode of a status code, statement by statement: the  *)
(*               while loop of get_bit_array_from_int and the for loop of  *)
(*               __translate_mode, with weak fairness (a sequential        *)
(*               program keeps executing its next statement).              *)
(* Both are built from the same loop-body operators (ScanBody, FoldBody).  *)
(*                                                                         *)
(* Status codes are Python integers (unbounded), so no width is modelled.  *)
(* Temperatures are counted in tenths of a degree Celsius.                 *)
(***************************************************************************)
EXTENDS Integers, Sequences, FiniteSets, TLC

VARIABLES
    deviceStatus,   \* the oven's status register, as its MODE? reply reports it
    sent,           \* commands handed to the transport, oldest first
    clock,          \* seconds the driver has spent in sleep()
    modeResult,     \* <<>> or <<v>>: the value the latest read of mode returned
    queried,        \* <<>> or <<s>>: the oven's status when MODE? was last asked
    modeReads,      \* number of reads of the mode property so far
    raised,         \* whether the latest driver call raised an exception
    lastCall,       \* the latest driver call: [op, arg]
    pc,             \* DecodeSpec: position in the decode ("idle" under Spec)
    mode_int,       \* DecodeSpec: the argument of get_bit_array_from_int
    mask,           \* DecodeSpec: local of get_bit_array_from_int
    mode_bits,      \* DecodeSpec: local of get_bit_array_from_int / __translate_mode
    mode,           \* DecodeSpec: the accumulator of __translate_mode
    idx,            \* DecodeSpec: position of the for loop in mode_bits
    iters,          \* DecodeSpec: iterations of the while loop so far
    result          \* DecodeSpec: the value __translate_mode returned

driverVars == <<deviceStatus, sent, clock, modeResult, queried, modeReads, raised, lastCall>>
decodeVars == <<pc, mode_int, mask, mode_bits, mode, idx, iters, result>>
vars == <<deviceStatus, sent, clock, modeResult, queried, modeReads, raised, lastCall,
          pc, mode_int, mask, mode_bits, mode, idx, iters, result>>

----------------------------------------------------------------------------
(* Bounds of the model *)

\* status codes decoded under DecodeSpec: -NegCodes .. MaxCode
MaxCode == 1030
NegCodes == 3
\* cap on while-loop iterations (above the bit length of every code decoded)
MaxIters == 14
\* cap on the commands handed to the transport under Spec
MaxSent == 3

----------------------------------------------------------------------------
(* Thermotron3800Mode(IntFlag) *)

PROGRAM_MODE == 1
EDIT_MODE_STOP == 2
VIEW_PROGRAM_MODE == 4
EDIT_MODE_HOLD == 8
MANUAL_MODE == 16
DELAYED_START_MODE == 32
UNUSED == 64
CALIBRATION_MODE == 128
UNKNOWN_MODE == -1

\* a plausible slip: bit 6 ("Unused" in the docstring) left out of the enumeration
ModeValues_without_unused ==
    {PROGRAM_MODE, EDIT_MODE_STOP, VIEW_PROGRAM_MODE, EDIT_MODE_HOLD, MANUAL_MODE,
     DELAYED_START_MODE, CALIBRATION_MODE, UNKNOWN_MODE}

\* the values of the members the class body declares
ModeValues ==
    {PROGRAM_MODE, EDIT_MODE_STOP, VIEW_PROGRAM_MODE, EDIT_MODE_HOLD, MANUAL_MODE,
     DELAYED_START_MODE, UNUSED, CALIBRATION_MODE, UNKNOWN_MODE}

\* a plausible slip: the class derived from IntEnum, whose call raises ValueError
\* for a value no member has
Thermotron3800Mode_strict(value) ==
    IF value \in ModeValues THEN [raised |-> FALSE, value |-> value]
                            ELSE [raised |-> TRUE, value |-> 0]

\* Thermotron3800Mode(value): an IntFlag accepts every integer; a value no member
\* has yields an unnamed pseudo-member holding that value
Thermotron3800Mode(value) == [raised |-> FALSE, value |-> value]

\* `member in Thermotron3800Mode`: the member is one the class body declares
InThermotron3800Mode(member) == member \in ModeValues

----------------------------------------------------------------------------
(* Python's integer operators, on unbounded two's complement integers *)

Max2(a, b) == IF a >= b THEN a ELSE b
Min2(a, b) == IF a <= b THEN a ELSE b

\* a | b
RECURSIVE BitOr(_, _)
BitOr(a, b) ==
    IF a = 0 THEN b
    ELSE IF b = 0 THEN a
    ELSE IF a = -1 \/ b = -1 THEN -1
    ELSE 2 * BitOr(a \div 2, b \div 2) + Max2(a % 2, b % 2)

\* a & b
RECURSIVE BitAnd(_, _)
BitAnd(a, b) ==
    IF a = 0 \/ b = 0 THEN 0
    ELSE IF a = -1 THEN b
    ELSE IF b = -1 THEN a
    ELSE 2 * BitAnd(a \div 2, b \div 2) + Min2(a % 2, b % 2)

\* a << 1
ShiftLeft1(a) == 2 * a

----------------------------------------------------------------------------
(* get_bit_array_from_int *)

\* a plausible slip: `while mask < mode_int`
ScanGuard_strict(m, n) == m < n

\* the while condition: mask <= mode_int
ScanGuard(m, n) == m <= n

\* a plausible slip: `mask = mask << 1` indented under `if bit != 0`
ScanBody_shift_in_if(s, n) ==
    LET bit == BitAnd(n, s.mask)
    IN  IF bit # 0
        THEN [mask |-> ShiftLeft1(s.mask), mode_bits |-> Append(s.mode_bits, bit)]
        ELSE s

\* one iteration of the while loop, on the locals s = [mask, mode_bits]
ScanBody(s, n) ==
    LET bit == BitAnd(n, s.mask)
    IN  [mask      |-> ShiftLeft1(s.mask),
         mode_bits |-> IF bit # 0 THEN Append(s.mode_bits, bit) ELSE s.mode_bits]

\* the locals at entry: mode_bits = [], mask = 0x1
ScanEntry == [mask |-> 1, mode_bits |-> <<>>]

RECURSIVE ScanFrom(_, _, _)
ScanFrom(s, n, fuel) ==
    IF ScanGuard(s.mask, n) /\ fuel > 0 THEN ScanFrom(ScanBody(s, n), n, fuel - 1)
                                       ELSE s.mode_bits

\* the whole call (the loop cut off after MaxIters iterations)
get_bit_array_from_int(n) == ScanFrom(ScanEntry, n, MaxIters)

----------------------------------------------------------------------------
(* __translate_mode *)

\* a plausible slip: an unrecognised bit OR-ed in as it is
FoldBody_keep_bit(acc, bit) ==
    [raised |-> FALSE, mode |-> BitOr(acc.mode, bit)]

\* one iteration of the for loop, on the accumulator acc = [raised, mode]
FoldBody(acc, bit) ==
    LET member == Thermotron3800Mode(bit)
    IN  IF member.raised THEN [raised |-> TRUE, mode |-> acc.mode]
        ELSE IF InThermotron3800Mode(member.value)
             THEN [raised |-> FALSE, mode |-> BitOr(acc.mode, member.value)]
             ELSE [raised |-> FALSE, mode |-> BitOr(acc.mode, UNKNOWN_MODE)]

\* the accumulator at entry: mode = 0
FoldEntry == [raised |-> FALSE, mode |-> 0]

\* a plausible slip: `return mode`
ReturnValue_no_fallback(m) == m

\* return mode if mode != 0 else UNKNOWN_MODE
ReturnValue(m) == IF m # 0 THEN m ELSE UNKNOWN_MODE

RECURSIVE FoldFrom(_, _, _)
FoldFrom(acc, bits, i) ==
    IF i > Len(bits) \/ acc.raised THEN acc
    ELSE FoldFrom(FoldBody(acc, bits[i]), bits, i + 1)

\* the whole call: [raised, value]
translate_mode(mode_coded_integer) ==
    LET acc == FoldFrom(FoldEntry, get_bit_array_from_int(mode_coded_integer), 1)
    IN  IF acc.raised THEN [raised |-> TRUE, value |-> 0]
                      ELSE [raised |-> FALSE, value |-> ReturnValue(acc.mode)]

----------------------------------------------------------------------------
(* DecodeSpec: one decode, statement by statement *)

DriverInit ==
    /\ sent = <<>>
    /\ clock = 0
    /\ modeResult = <<>>
    /\ queried = <<>>
    /\ modeReads = 0
    /\ raised = FALSE
    /\ lastCall = [op |-> "none", arg |-> 0]

DecodeCodes == (0 - NegCodes) .. MaxCode

DecodeInit ==
    /\ deviceStatus = 0
    /\ DriverInit
    /\ pc = "scan"
    /\ mode_int \in DecodeCodes
    /\ mask = ScanEntry.mask
    /\ mode_bits = ScanEntry.mode_bits
    /\ mode = FoldEntry.mode
    /\ idx = 1
    /\ iters = 0
    /\ result = 0

\* the while condition holds: run the loop body once
ScanIter ==
    /\ pc = "scan"
    /\ ScanGuard(mask, mode_int)
    /\ iters < MaxIters
    /\ LET s == ScanBody([mask |-> mask, mode_bits |-> mode_bits], mode_int)
       IN  /\ mask' = s.mask
           /\ mode_bits' = s.mode_bits
    /\ iters' = iters + 1
    /\ UNCHANGED <<pc, mode_int, mode, idx, result>>
    /\ UNCHANGED <<deviceStatus, driverVars>>

\* the while condition fails: return mode_bits to __translate_mode
ScanExit ==
    /\ pc = "scan"
    /\ ~ScanGuard(mask, mode_int)
    /\ pc' = "fold"
    /\ UNCHANGED <<mode_int, mask, mode_bits, mode, idx, iters, result>>
    /\ UNCHANGED <<deviceStatus, driverVars>>

\* for bit in mode_bits: run the loop body once
FoldIter ==
    /\ pc = "fold"
    /\ idx <= Len(mode_bits)
    /\ LET acc == FoldBody([raised |-> FALSE, mode |-> mode], mode_bits[idx])
       IN  /\ mode' = acc.mode
           /\ pc' = IF acc.raised THEN "raised" ELSE "fold"
    /\ idx' = idx + 1
    /\ UNCHANGED <<mode_int, mask, mode_bits, iters, result>>
    /\ UNCHANGED <<deviceStatus, driverVars>>

\* the for loop is over: return
Return ==
    /\ pc = "fold"
    /\ idx > Len(mode_bits)
    /\ result' = ReturnValue(mode)
    /\ pc' = "done"
    /\ UNCHANGED <<mode_int, mask, mode_bits, mode, idx, iters>>
    /\ UNCHANGED <<deviceStatus, driverVars>>

DecodeNext == ScanIter \/ ScanExit \/ FoldIter \/ Return

DecodeSpec == DecodeInit /\ [][DecodeNext]_vars /\ WF_vars(DecodeNext)

----------------------------------------------------------------------------
(* The driver: write, the properties and the commands *)

\* sleep(1) in write
SLEEP_SECONDS == 1

\* the transport's record of one command handed to it
Sent(command, viaWrite) == [cmd |-> command, at |-> clock, write |-> viaWrite]

\* a plausible slip: the wait left out
write_without_sleep(command) ==
    /\ sent' = Append(sent, Sent(command, TRUE))
    /\ clock' = clock

\* Thermotron3800.write: super().write(command), then sleep(1)
write(command) ==
    /\ sent' = Append(sent, Sent(command, TRUE))
    /\ clock' = clock + SLEEP_SECONDS

\* Instrument.ask, as Instrument.measurement uses it: the query goes to the
\* transport and the reply is read back
ask(command) ==
    /\ sent' = Append(sent, Sent(command, FALSE))
    /\ clock' = clock

\* a temperature in tenths of a degree
Tenths(degrees) == 10 * degrees

\* values=[-55, 150]
setpoint_values == <<Tenths(-55), Tenths(150)>>

\* validators.strict_range: the value, or ValueError outside min(values)..max(values)
strict_range(value, values) ==
    IF Min2(values[1], values[2]) <= value /\ value <= Max2(values[1], values[2])
    THEN [raised |-> FALSE, value |-> value]
    ELSE [raised |-> TRUE, value |-> 0]

\* validators.truncated_range: the value clamped into min(values)..max(values)
truncated_range(value, values) ==
    [raised |-> FALSE,
     value  |-> Max2(Min2(values[1], values[2]), Min2(value, Max2(values[1], values[2])))]

\* a plausible slip: validator=truncated_range
setpoint_validator_truncating(value) == truncated_range(value, setpoint_values)

\* validator=strict_range, values=[-55, 150]
setpoint_validator(value) == strict_range(value, setpoint_values)

\* "%g" of a number of tenths t: at most four significant digits here, so no
\* exponent and no rounding; a zero fraction is dropped
FormatG(t) ==
    LET a == IF t < 0 THEN 0 - t ELSE t
    IN  (IF t < 0 THEN "-" ELSE "") \o ToString(a \div 10)
        \o (IF a % 10 = 0 THEN "" ELSE "." \o ToString(a % 10))

\* "SETP1,%g" % value
setpoint_set_command(value) == "SETP1," \o FormatG(value)

\* a plausible slip: the property hands back the value it decoded before
mode_get_process_cached(reply) ==
    IF modeResult # <<>> THEN [raised |-> FALSE, value |-> modeResult[1]]
                         ELSE translate_mode(reply)

\* get_process=lambda mode: Thermotron3800.__translate_mode(mode)
mode_get_process(reply) == translate_mode(reply)

\* status codes the oven reports under Spec
DeviceCodes == {0, 3, 129, 257}
\* values the caller assigns to setpoint, in tenths of a degree
SetpointInputs == {-551, -550, 205, 1500, 1501}
\* the measurements without a get_process: id, temperature, setpoint
PlainQueries == {"IDEN?", "PVAR1?", "SETP1?"}

DecodeIdle ==
    /\ pc = "idle"
    /\ mode_int = 0
    /\ mask = ScanEntry.mask
    /\ mode_bits = ScanEntry.mode_bits
    /\ mode = FoldEntry.mode
    /\ idx = 1
    /\ iters = 0
    /\ result = 0

Init ==
    /\ deviceStatus \in DeviceCodes
    /\ DriverInit
    /\ DecodeIdle

\* what a call that only writes one command leaves behind
Written(op) ==
    /\ raised' = FALSE
    /\ lastCall' = [op |-> op, arg |-> 0]
    /\ UNCHANGED <<deviceStatus, modeResult, queried, modeReads>>
    /\ UNCHANGED decodeVars

\* run(): self.write("RUNM")
run ==
    /\ Len(sent) < MaxSent
    /\ write("RUNM")
    /\ Written("run")

\* stop(): self.write("STOP")
stop ==
    /\ Len(sent) < MaxSent
    /\ write("STOP")
    /\ Written("stop")

\* initalize_oven(): self.write("INIT")
initalize_oven ==
    /\ Len(sent) < MaxSent
    /\ write("INIT")
    /\ Written("initalize_oven")

\* instrument.setpoint = value
setpoint_set ==
    \E value \in SetpointInputs :
        LET checked == setpoint_validator(value)
        IN  /\ IF checked.raised
               THEN /\ raised' = TRUE
                    /\ UNCHANGED <<sent, clock>>
               ELSE /\ Len(sent) < MaxSent
                    /\ write(setpoint_set_command(checked.value))
                    /\ raised' = FALSE
            /\ lastCall' = [op |-> "setpoint", arg |-> value]
            /\ UNCHANGED <<deviceStatus, modeResult, queried, modeReads>>
            /\ UNCHANGED decodeVars

\* instrument.id, instrument.temperature, reading instrument.setpoint
measurement_get ==
    \E query \in PlainQueries :
        /\ Len(sent) < MaxSent
        /\ ask(query)
        /\ raised' = FALSE
        /\ lastCall' = [op |-> "measurement", arg |-> 0]
        /\ UNCHANGED <<deviceStatus, modeResult, queried, modeReads>>
        /\ UNCHANGED decodeVars

\* instrument.mode: ask "MODE?", decode the reply
mode_get ==
    /\ Len(sent) < MaxSent
    /\ ask("MODE?")
    /\ queried' = <<deviceStatus>>
    /\ modeReads' = modeReads + 1
    /\ LET decoded == mode_get_process(deviceStatus)
       IN  /\ raised' = decoded.raised
           /\ modeResult' = IF decoded.raised THEN modeResult ELSE <<decoded.value>>
    /\ lastCall' = [op |-> "mode", arg |-> 0]
    /\ UNCHANGED deviceStatus
    /\ UNCHANGED decodeVars

\* the oven moves to another operating mode
StatusChange ==
    /\ \E code \in DeviceCodes \ {deviceStatus} : deviceStatus' = code
    /\ UNCHANGED <<sent, clock, modeResult, queried, modeReads, raised, lastCall>>
    /\ UNCHANGED decodeVars

Next ==
    \/ run
    \/ stop
    \/ initalize_oven
    \/ setpoint_set
    \/ measurement_get
    \/ mode_get
    \/ StatusChange

Spec == Init /\ [][Next]_vars

----------------------------------------------------------------------------
(* Vocabulary of the properties of a decode *)

Pow2(k) == 2 ^ k
\* the values of the 8 known bit positions, and of the positions above them
KnownBits == {Pow2(k) : k \in 0 .. 7}
HighBits == {Pow2(k) : k \in 8 .. MaxIters}
AllBits == KnownBits \cup HighBits
\* bit b (a power of two) is set in the non-negative integer n
BitSet(n, b) == (n \div b) % 2 = 1
\* number of binary digits of n; 0 for n <= 0
BitLength(n) == IF n <= 0 THEN 0 ELSE CHOOSE k \in 1 .. MaxIters + 1 : Pow2(k - 1) <= n /\ n < Pow2(k)

RECURSIVE SeqSum(_)
SeqSum(q) == IF q = <<>> THEN 0 ELSE Head(q) + SeqSum(Tail(q))

Decoded == pc = "done"

\* C1: for every status code in 1..255 the decoded value is exactly the OR of the
\* recognised flags whose bits are set in the code: numerically the code itself,
\* every set bit present, no unset bit present, UNKNOWN not included.
C1_DecodeKnownBitsExact ==
    (Decoded /\ mode_int \in 1 .. 255) =>
        /\ result = mode_int
        /\ result # UNKNOWN_MODE
        /\ \A b \in KnownBits : BitSet(result, b) <=> BitSet(mode_int, b)
        /\ \A b \in KnownBits : BitSet(mode_int, b) => b \in ModeValues

C1_Witness ==
    /\ Decoded
    /\ mode_int = 129
    /\ result = PROGRAM_MODE + CALIBRATION_MODE

\* C2: status code 0, or any code whose accumulation stays empty, decodes to
\* UNKNOWN alone (-1); the empty flag value 0 is never the result of a decode.
C2_EmptyDecodesToUnknown ==
    Decoded =>
        /\ result # 0
        /\ (mode = 0 => result = UNKNOWN_MODE)
        /\ (mode_int = 0 => (mode_bits = <<>> /\ result = UNKNOWN_MODE))

C2_Witness ==
    /\ Decoded
    /\ mode_int = 0
    /\ result = UNKNOWN_MODE

\* C3: a non-negative status code with a set bit outside the 8 known positions
\* decodes to UNKNOWN (-1) exactly, whether or not recognised bits are set too.
C3_UnknownBitFoldsToUnknown ==
    (Decoded /\ mode_int >= 0 /\ \E b \in HighBits : BitSet(mode_int, b)) =>
        result = UNKNOWN_MODE

C3_Witness ==
    /\ Decoded
    /\ mode_int = 257
    /\ mode_bits = <<1, 256>>
    /\ result = UNKNOWN_MODE

\* C4: for every integer status code, negative and above 255 included, the decode
\* raises nothing and completes with a mode value; a negative code makes the scan
\* extract no bits and decodes to UNKNOWN.
C4_DecodeTotal ==
    /\ [](pc # "raised")
    /\ <>Decoded
    /\ [](Decoded => (result = UNKNOWN_MODE \/ result \in 1 .. 255))
    /\ []((Decoded /\ mode_int < 0) =>
            (iters = 0 /\ mode_bits = <<>> /\ result = UNKNOWN_MODE))

C4_Witness ==
    /\ Decoded
    /\ mode_int < 0
    /\ iters = 0
    /\ result = UNKNOWN_MODE

\* C8: for every non-negative n the scan yields exactly the set bits of n: each
\* element a single power of two set in n, every set bit once, strictly ascending,
\* summing to n; positions are visited from 0 upward only while 1 << position <= n;
\* for n = 0 the list is empty.
C8_ScanYieldsSetBits ==
    mode_int >= 0 =>
        /\ \A i \in 1 .. Len(mode_bits) :
              mode_bits[i] \in AllBits /\ BitSet(mode_int, mode_bits[i])
        /\ \A i \in 1 .. Len(mode_bits) - 1 : mode_bits[i] < mode_bits[i + 1]
        /\ mask = Pow2(iters)
        /\ (iters > 0 => Pow2(iters - 1) <= mode_int)
        /\ \A b \in AllBits :
              (b < mask /\ BitSet(mode_int, b)) => \E i \in 1 .. Len(mode_bits) : mode_bits[i] = b
        /\ (pc # "scan" => SeqSum(mode_bits) = mode_int)
        /\ (mode_int = 0 => mode_bits = <<>>)

C8_Witness ==
    /\ pc = "fold"
    /\ mode_int = 1029
    /\ mode_bits = <<1, 4, 1024>>

\* C9: the bit scan terminates for every integer input: the mask doubles on every
\* iteration, the loop runs as many iterations as the input has binary digits
\* (none for inputs <= 0), and the decode finishes.
C9_ScanTerminates ==
    /\ <>Decoded
    /\ [][(pc = "scan" /\ pc' = "scan") => (mask' = 2 * mask /\ iters' = iters + 1)]_vars
    /\ [](pc # "scan" => iters = BitLength(mode_int))

C9_Witness ==
    /\ Decoded
    /\ mode_int = 1030
    /\ iters = 11


----------------------------------------------------------------------------
(* Properties of the driver *)

\* the command each writing call sends
WrittenCommand == [run |-> "RUNM", stop |-> "STOP", initalize_oven |-> "INIT"]

\* C6: every command sent through write is followed by the 1-second wait before
\* the call returns: the wait comes after the command is handed to the transport
\* and before any later command, so no two written commands reach the oven without
\* a wait between them; run, stop and initalize_oven send RUNM, STOP and INIT.
C6_WaitAfterEveryWrite ==
    /\ \A i \in 1 .. Len(sent) :
          sent[i].write => clock >= sent[i].at + 1
    /\ \A i \in 1 .. Len(sent) : \A j \in 1 .. Len(sent) :
          (i < j /\ sent[i].write) => sent[j].at >= sent[i].at + 1
    /\ lastCall.op \in DOMAIN WrittenCommand =>
          /\ sent # <<>>
          /\ sent[Len(sent)].cmd = WrittenCommand[lastCall.op]
          /\ sent[Len(sent)].write
          /\ clock = sent[Len(sent)].at + 1

C6_Witness ==
    /\ Len(sent) = 3
    /\ sent[1].cmd = "RUNM" /\ sent[1].at = 0
    /\ sent[2].cmd = "MODE?" /\ sent[2].at = 1
    /\ sent[3].cmd = "STOP" /\ sent[3].at = 1
    /\ clock = 2

\* number of MODE? queries among the commands sent
RECURSIVE ModeQueries(_)
ModeQueries(q) ==
    IF q = <<>> THEN 0
    ELSE (IF Head(q).cmd = "MODE?" THEN 1 ELSE 0) + ModeQueries(Tail(q))

\* what each status code of DeviceCodes decodes to
ExpectedMode == [code \in {0, 3, 129, 257} |->
                    IF code \in 1 .. 255 THEN code ELSE UNKNOWN_MODE]

\* C7: every read of mode issues a new MODE? query and returns the decoding of
\* the status the oven reported to that query, never a value kept from an earlier
\* read, whatever the oven's status was before or has become since.
C7_ModeReadIsFresh ==
    /\ ModeQueries(sent) = modeReads
    /\ (modeReads > 0) <=> (queried # <<>>)
    /\ (queried # <<>> /\ ~(lastCall.op = "mode" /\ raised)) =>
          modeResult = <<ExpectedMode[queried[1]]>>
    /\ lastCall.op = "mode" =>
          /\ sent[Len(sent)].cmd = "MODE?"
          /\ queried # <<>>

\* two reads, and the oven has left the status the second one reported
C7_Witness ==
    /\ modeReads = 2
    /\ sent[1].cmd = "MODE?"
    /\ sent[2].cmd = "MODE?"
    /\ lastCall.op = "mode"
    /\ queried = <<129>>
    /\ deviceStatus = 257
    /\ modeResult = <<129>>

\* the command a setpoint inside the range sends
ExpectedSetpointCommand ==
    [value \in {-550, 205, 1500} |->
        CASE value = -550 -> "SETP1,-55"
          [] value = 205  -> "SETP1,20.5"
          [] value = 1500 -> "SETP1,150"]

\* C10: setting setpoint outside the closed range [-55, 150] raises and sends
\* nothing (so no wait starts); setting it inside the range, bounds included,
\* sends exactly one "SETP1,<value>" command.
C10_SetpointRange ==
    [][(lastCall'.op = "setpoint" /\ deviceStatus' = deviceStatus) =>
          IF lastCall'.arg < -550 \/ lastCall'.arg > 1500
          THEN /\ raised'
               /\ sent' = sent
               /\ clock' = clock
          ELSE /\ ~raised'
               /\ sent' = Append(sent, [cmd   |-> ExpectedSetpointCommand[lastCall'.arg],
                                        at    |-> clock,
                                        write |-> TRUE])
      ]_vars

C10_Witness ==
    /\ Len(sent) = 2
    /\ sent[1].cmd = "SETP1,-55"
    /\ sent[2].cmd = "SETP1,150"
    /\ lastCall = [op |-> "setpoint", arg |-> 1501]
    /\ raised
    /\ clock = 2

=============================================================================
